---- MODULE Spec2Model ----
(***************************************************************************)
(* Blackjack basic strategy: the decision function basic_strategy_action,  *)
(* the two-card total and the generator of all deals, as implemented in    *)
(* blackjack.py (action codes 0-5) and generate_basic_strategy_data.py     *)
(* (action names).  Definitions of the second file carry the prefix Gen_.  *)
(***************************************************************************)
EXTENDS Integers, Sequences, FiniteSets, TLC

VARIABLES card1, card2, dealer, ret, ret_gen, prog, it, pc, out

vars == <<card1, card2, dealer, ret, ret_gen, prog, it, pc, out>>

(* ---------------- blackjack.py: constants ---------------- *)

RANKS == <<"2", "3", "4", "5", "6", "7", "8", "9", "T", "J", "Q", "K", "A">>

RANK_VALUE ==
    "2" :> 2 @@ "3" :> 3 @@ "4" :> 4 @@ "5" :> 5 @@ "6" :> 6 @@ "7" :> 7 @@
    "8" :> 8 @@ "9" :> 9 @@ "T" :> 10 @@ "J" :> 10 @@ "Q" :> 10 @@ "K" :> 10 @@
    "A" :> 11

HIT == 0
STAND == 1
SPLIT == 2
DOUBLE_OR_HIT == 3
DOUBLE_OR_STAND == 4
SURRENDER_OR_HIT == 5

ACTION_NAME ==
    HIT :> "Hit" @@ STAND :> "Stand" @@ SPLIT :> "Split" @@
    DOUBLE_OR_HIT :> "DoubleH" @@ DOUBLE_OR_STAND :> "DoubleS" @@
    SURRENDER_OR_HIT :> "Surrender"

(* ---------------- outcomes of a Python call ---------------- *)

\* the call executed "return v"
Return(v) == [status |-> "return", value |-> v]
\* the call ran off the end of the function body (Python yields None)
NoReturn == [status |-> "none"]
\* the call raised exception e
Raise(e) == [status |-> "raise", exc |-> e]
\* the call has not been made yet
Pending == [status |-> "pending"]

\* RankSet: the elements of the list RANKS
RankSet == {RANKS[i] : i \in 1..Len(RANKS)}

(* ---------------- blackjack.py: basic_strategy_action ---------------- *)

\* name_for_action: ACTION_NAME[action], KeyError for an unknown key
name_for_action(action) ==
    IF action \in DOMAIN ACTION_NAME THEN Return(ACTION_NAME[action])
    ELSE Raise("KeyError")

PairAction_Nine710(card1_value, dealer_value) ==
    IF card1_value = 10 THEN Return(STAND)
    ELSE IF card1_value = 9 THEN
        (IF dealer_value \in {7, 10} THEN Return(STAND) ELSE Return(SPLIT))
    ELSE IF card1_value \in {8, 11} THEN Return(SPLIT)
    ELSE IF card1_value \in {2, 3, 7} THEN
        (IF dealer_value <= 7 THEN Return(SPLIT) ELSE Return(HIT))
    ELSE IF card1_value = 6 THEN
        (IF dealer_value <= 6 THEN Return(SPLIT) ELSE Return(HIT))
    ELSE IF card1_value = 4 THEN
        (IF dealer_value \in {5, 6} THEN Return(SPLIT) ELSE Return(HIT))
    ELSE NoReturn

\* the body of "if card1 == card2:"; NoReturn means the block was left
\* without a return (5+5) and control continues below it
PairAction(card1_value, dealer_value) ==
    IF card1_value = 10 THEN Return(STAND)
    ELSE IF card1_value = 9 THEN
        (IF dealer_value \in {7, 10, 11} THEN Return(STAND) ELSE Return(SPLIT))
    ELSE IF card1_value \in {8, 11} THEN Return(SPLIT)
    ELSE IF card1_value \in {2, 3, 7} THEN
        (IF dealer_value <= 7 THEN Return(SPLIT) ELSE Return(HIT))
    ELSE IF card1_value = 6 THEN
        (IF dealer_value <= 6 THEN Return(SPLIT) ELSE Return(HIT))
    ELSE IF card1_value = 4 THEN
        (IF dealer_value \in {5, 6} THEN Return(SPLIT) ELSE Return(HIT))
    ELSE NoReturn

SoftAction_Strict6(card2_value, dealer_value) ==
    IF card2_value \in {9, 10} THEN Return(STAND)
    ELSE IF card2_value = 8 THEN
        (IF dealer_value = 6 THEN Return(DOUBLE_OR_STAND) ELSE Return(STAND))
    ELSE IF card2_value = 7 THEN
        (IF dealer_value < 6 THEN Return(DOUBLE_OR_STAND)
         ELSE IF dealer_value <= 8 THEN Return(STAND)
         ELSE Return(HIT))
    ELSE IF card2_value = 6 THEN
        (IF 3 <= dealer_value /\ dealer_value <= 6
         THEN Return(DOUBLE_OR_HIT) ELSE Return(HIT))
    ELSE IF card2_value \in {4, 5} THEN
        (IF 4 <= dealer_value /\ dealer_value <= 6
         THEN Return(DOUBLE_OR_HIT) ELSE Return(HIT))
    ELSE (IF dealer_value \in {5, 6} THEN Return(DOUBLE_OR_HIT) ELSE Return(HIT))

\* the body of "if card1 == 'A':"
SoftAction(card2_value, dealer_value) ==
    IF card2_value \in {9, 10} THEN Return(STAND)
    ELSE IF card2_value = 8 THEN
        (IF dealer_value = 6 THEN Return(DOUBLE_OR_STAND) ELSE Return(STAND))
    ELSE IF card2_value = 7 THEN
        (IF dealer_value <= 6 THEN Return(DOUBLE_OR_STAND)
         ELSE IF dealer_value <= 8 THEN Return(STAND)
         ELSE Return(HIT))
    ELSE IF card2_value = 6 THEN
        (IF 3 <= dealer_value /\ dealer_value <= 6
         THEN Return(DOUBLE_OR_HIT) ELSE Return(HIT))
    ELSE IF card2_value \in {4, 5} THEN
        (IF 4 <= dealer_value /\ dealer_value <= 6
         THEN Return(DOUBLE_OR_HIT) ELSE Return(HIT))
    ELSE (IF dealer_value \in {5, 6} THEN Return(DOUBLE_OR_HIT) ELSE Return(HIT))

HardAction_NoFallback(card1_value, card2_value, dealer_value) ==
    LET total == card1_value + card2_value IN
    IF total >= 17 THEN Return(STAND)
    ELSE IF total = 16 THEN
        (IF dealer_value <= 6 THEN Return(STAND)
         ELSE IF dealer_value <= 8 THEN Return(HIT)
         ELSE Return(SURRENDER_OR_HIT))
    ELSE IF total = 15 THEN
        (IF dealer_value <= 6 THEN Return(STAND)
         ELSE IF dealer_value = 10 THEN Return(SURRENDER_OR_HIT)
         ELSE Return(HIT))
    ELSE IF total \in {13, 14} THEN
        (IF dealer_value <= 6 THEN Return(STAND) ELSE Return(HIT))
    ELSE IF total = 12 THEN
        (IF 4 <= dealer_value /\ dealer_value <= 6
         THEN Return(STAND) ELSE Return(HIT))
    ELSE IF total = 11 THEN Return(DOUBLE_OR_HIT)
    ELSE IF total = 10 THEN
        (IF dealer_value <= 9 THEN Return(DOUBLE_OR_HIT) ELSE Return(HIT))
    ELSE IF total = 9 THEN
        (IF 3 <= dealer_value /\ dealer_value <= 6
         THEN Return(DOUBLE_OR_HIT) ELSE Return(HIT))
    ELSE NoReturn

HardAction_Surrender15(card1_value, card2_value, dealer_value) ==
    LET total == card1_value + card2_value IN
    IF total >= 17 THEN Return(STAND)
    ELSE IF total = 16 THEN
        (IF dealer_value <= 6 THEN Return(STAND)
         ELSE IF dealer_value <= 8 THEN Return(HIT)
         ELSE Return(SURRENDER_OR_HIT))
    ELSE IF total = 15 THEN
        (IF dealer_value <= 6 THEN Return(STAND)
         ELSE IF dealer_value >= 10 THEN Return(SURRENDER_OR_HIT)
         ELSE Return(HIT))
    ELSE IF total \in {13, 14} THEN
        (IF dealer_value <= 6 THEN Return(STAND) ELSE Return(HIT))
    ELSE IF total = 12 THEN
        (IF 4 <= dealer_value /\ dealer_value <= 6
         THEN Return(STAND) ELSE Return(HIT))
    ELSE IF total = 11 THEN Return(DOUBLE_OR_HIT)
    ELSE IF total = 10 THEN
        (IF dealer_value <= 9 THEN Return(DOUBLE_OR_HIT) ELSE Return(HIT))
    ELSE IF total = 9 THEN
        (IF 3 <= dealer_value /\ dealer_value <= 6
         THEN Return(DOUBLE_OR_HIT) ELSE Return(HIT))
    ELSE Return(HIT)

\* the body of the "else:" of "if card1 == 'A':"
HardAction(card1_value, card2_value, dealer_value) ==
    LET total == card1_value + card2_value IN
    IF total >= 17 THEN Return(STAND)
    ELSE IF total = 16 THEN
        (IF dealer_value <= 6 THEN Return(STAND)
         ELSE IF dealer_value <= 8 THEN Return(HIT)
         ELSE Return(SURRENDER_OR_HIT))
    ELSE IF total = 15 THEN
        (IF dealer_value <= 6 THEN Return(STAND)
         ELSE IF dealer_value = 10 THEN Return(SURRENDER_OR_HIT)
         ELSE Return(HIT))
    ELSE IF total \in {13, 14} THEN
        (IF dealer_value <= 6 THEN Return(STAND) ELSE Return(HIT))
    ELSE IF total = 12 THEN
        (IF 4 <= dealer_value /\ dealer_value <= 6
         THEN Return(STAND) ELSE Return(HIT))
    ELSE IF total = 11 THEN Return(DOUBLE_OR_HIT)
    ELSE IF total = 10 THEN
        (IF dealer_value <= 9 THEN Return(DOUBLE_OR_HIT) ELSE Return(HIT))
    ELSE IF total = 9 THEN
        (IF 3 <= dealer_value /\ dealer_value <= 6
         THEN Return(DOUBLE_OR_HIT) ELSE Return(HIT))
    ELSE Return(HIT)

Dispatch_NoPairTest(c1, c2, d) ==
    IF ~({c1, c2, d} \subseteq DOMAIN RANK_VALUE) THEN Raise("KeyError")
    ELSE
        LET card1_value == RANK_VALUE[c1]
            card2_value == RANK_VALUE[c2]
            dealer_value == RANK_VALUE[d]
            pair == PairAction(card1_value, dealer_value)
        IN  IF pair # NoReturn THEN pair
            ELSE IF c1 = "A" THEN SoftAction(card2_value, dealer_value)
            ELSE HardAction(card1_value, card2_value, dealer_value)

\* the control flow after the Ace swap: c1, c2 are the swapped cards
Dispatch(c1, c2, d) ==
    IF ~({c1, c2, d} \subseteq DOMAIN RANK_VALUE) THEN Raise("KeyError")
    ELSE
        LET card1_value == RANK_VALUE[c1]
            card2_value == RANK_VALUE[c2]
            dealer_value == RANK_VALUE[d]
            pair == IF c1 = c2 THEN PairAction(card1_value, dealer_value)
                    ELSE NoReturn
        IN  IF pair # NoReturn THEN pair
            ELSE IF c1 = "A" THEN SoftAction(card2_value, dealer_value)
            ELSE HardAction(card1_value, card2_value, dealer_value)

basic_strategy_action_NoSwap(c1, c2, d) ==
    Dispatch(c1, c2, d)

basic_strategy_action(c1, c2, d) ==
    IF c2 = "A" THEN Dispatch(c2, c1, d) ELSE Dispatch(c1, c2, d)

\* total: the sum of the two values, 12 for two Aces
total_NoAcePair(c1, c2) ==
    RANK_VALUE[c1] + RANK_VALUE[c2]

total(c1, c2) ==
    IF c1 = "A" /\ c2 = "A" THEN 12
    ELSE RANK_VALUE[c1] + RANK_VALUE[c2]

\* basic_strategy_data_record: the dictionary built for one deal; a failed
\* lookup in RANK_VALUE or ACTION_NAME propagates as the raised exception
basic_strategy_data_record(c1, c2, d) ==
    LET action_code == basic_strategy_action(c1, c2, d)
        action == IF action_code.status = "return"
                  THEN name_for_action(action_code.value)
                  ELSE IF action_code.status = "none" THEN Raise("KeyError")
                  ELSE action_code
    IN  IF action.status # "return" THEN action
        ELSE Return([card1       |-> c1,
                     card2       |-> c2,
                     total       |-> total(c1, c2),
                     softness    |-> IF c1 = "A" \/ c2 = "A" THEN "Soft" ELSE "Hard",
                     dealer      |-> d,
                     action      |-> action.value,
                     action_code |-> action_code.value])

(* ---------------- generate_basic_strategy_data.py ---------------- *)

Gen_RANKS == <<"2", "3", "4", "5", "6", "7", "8", "9", "T", "J", "Q", "K", "A">>

Gen_RANK_VALUE ==
    "2" :> 2 @@ "3" :> 3 @@ "4" :> 4 @@ "5" :> 5 @@ "6" :> 6 @@ "7" :> 7 @@
    "8" :> 8 @@ "9" :> 9 @@ "T" :> 10 @@ "J" :> 10 @@ "Q" :> 10 @@ "K" :> 10 @@
    "A" :> 11

Gen_HIT == "Hit"
Gen_STAND == "Stand"
Gen_SPLIT == "Split"
Gen_DOUBLE_OR_HIT == "DoubleH"
Gen_DOUBLE_OR_STAND == "DoubleS"
Gen_SURRENDER_OR_HIT == "Surrender"

\* Python's None as it appears in the "action" field of a record
None == "None"

Gen_PairAction_Nine7(card1_value, dealer_value) ==
    IF card1_value = 10 THEN Return(Gen_STAND)
    ELSE IF card1_value = 9 THEN
        (IF dealer_value \in {2, 3, 4, 5, 6, 7, 8, 9}
         THEN Return(Gen_SPLIT) ELSE Return(Gen_STAND))
    ELSE IF card1_value \in {8, 11} THEN Return(Gen_SPLIT)
    ELSE IF card1_value \in {2, 3, 7} THEN
        (IF dealer_value <= 7 THEN Return(Gen_SPLIT) ELSE Return(Gen_HIT))
    ELSE IF card1_value = 6 THEN
        (IF dealer_value <= 6 THEN Return(Gen_SPLIT) ELSE Return(Gen_HIT))
    ELSE IF card1_value = 4 THEN
        (IF dealer_value \in {5, 6} THEN Return(Gen_SPLIT) ELSE Return(Gen_HIT))
    ELSE NoReturn

Gen_PairAction(card1_value, dealer_value) ==
    IF card1_value = 10 THEN Return(Gen_STAND)
    ELSE IF card1_value = 9 THEN
        (IF dealer_value \in {2, 3, 4, 5, 6, 8, 9}
         THEN Return(Gen_SPLIT) ELSE Return(Gen_STAND))
    ELSE IF card1_value \in {8, 11} THEN Return(Gen_SPLIT)
    ELSE IF card1_value \in {2, 3, 7} THEN
        (IF dealer_value <= 7 THEN Return(Gen_SPLIT) ELSE Return(Gen_HIT))
    ELSE IF card1_value = 6 THEN
        (IF dealer_value <= 6 THEN Return(Gen_SPLIT) ELSE Return(Gen_HIT))
    ELSE IF card1_value = 4 THEN
        (IF dealer_value \in {5, 6} THEN Return(Gen_SPLIT) ELSE Return(Gen_HIT))
    ELSE NoReturn

Gen_SoftAction_NoFallback(card2_value, dealer_value) ==
    IF card2_value \in {9, 10} THEN Return(Gen_STAND)
    ELSE IF card2_value = 8 THEN
        (IF dealer_value = 6 THEN Return(Gen_DOUBLE_OR_STAND) ELSE Return(Gen_STAND))
    ELSE IF card2_value = 7 THEN
        (IF dealer_value <= 6 THEN Return(Gen_DOUBLE_OR_STAND)
         ELSE IF dealer_value <= 8 THEN Return(Gen_STAND)
         ELSE Return(Gen_HIT))
    ELSE IF card2_value = 6 THEN
        (IF 3 <= dealer_value /\ dealer_value <= 6
         THEN Return(Gen_DOUBLE_OR_HIT) ELSE Return(Gen_HIT))
    ELSE IF card2_value \in {4, 5} THEN
        (IF 4 <= dealer_value /\ dealer_value <= 6
         THEN Return(Gen_DOUBLE_OR_HIT) ELSE Return(Gen_HIT))
    ELSE NoReturn

Gen_SoftAction(card2_value, dealer_value) ==
    IF card2_value \in {9, 10} THEN Return(Gen_STAND)
    ELSE IF card2_value = 8 THEN
        (IF dealer_value = 6 THEN Return(Gen_DOUBLE_OR_STAND) ELSE Return(Gen_STAND))
    ELSE IF card2_value = 7 THEN
        (IF dealer_value <= 6 THEN Return(Gen_DOUBLE_OR_STAND)
         ELSE IF dealer_value <= 8 THEN Return(Gen_STAND)
         ELSE Return(Gen_HIT))
    ELSE IF card2_value = 6 THEN
        (IF 3 <= dealer_value /\ dealer_value <= 6
         THEN Return(Gen_DOUBLE_OR_HIT) ELSE Return(Gen_HIT))
    ELSE IF card2_value \in {4, 5} THEN
        (IF 4 <= dealer_value /\ dealer_value <= 6
         THEN Return(Gen_DOUBLE_OR_HIT) ELSE Return(Gen_HIT))
    ELSE (IF dealer_value \in {5, 6}
          THEN Return(Gen_DOUBLE_OR_HIT) ELSE Return(Gen_HIT))

Gen_HardAction(card1_value, card2_value, dealer_value) ==
    LET total_ == card1_value + card2_value IN
    IF total_ >= 17 THEN Return(Gen_STAND)
    ELSE IF total_ = 16 THEN
        (IF dealer_value <= 6 THEN Return(Gen_STAND)
         ELSE IF dealer_value <= 8 THEN Return(Gen_HIT)
         ELSE Return(Gen_SURRENDER_OR_HIT))
    ELSE IF total_ = 15 THEN
        (IF dealer_value <= 6 THEN Return(Gen_STAND)
         ELSE IF dealer_value = 10 THEN Return(Gen_SURRENDER_OR_HIT)
         ELSE Return(Gen_HIT))
    ELSE IF total_ \in {13, 14} THEN
        (IF dealer_value <= 6 THEN Return(Gen_STAND) ELSE Return(Gen_HIT))
    ELSE IF total_ = 12 THEN
        (IF 4 <= dealer_value /\ dealer_value <= 6
         THEN Return(Gen_STAND) ELSE Return(Gen_HIT))
    ELSE IF total_ = 11 THEN Return(Gen_DOUBLE_OR_HIT)
    ELSE IF total_ = 10 THEN
        (IF dealer_value <= 9 THEN Return(Gen_DOUBLE_OR_HIT) ELSE Return(Gen_HIT))
    ELSE IF total_ = 9 THEN
        (IF 3 <= dealer_value /\ dealer_value <= 6
         THEN Return(Gen_DOUBLE_OR_HIT) ELSE Return(Gen_HIT))
    ELSE Return(Gen_HIT)

Gen_Dispatch(c1, c2, d) ==
    IF ~({c1, c2, d} \subseteq DOMAIN Gen_RANK_VALUE) THEN Raise("KeyError")
    ELSE
        LET card1_value == Gen_RANK_VALUE[c1]
            card2_value == Gen_RANK_VALUE[c2]
            dealer_value == Gen_RANK_VALUE[d]
            pair == IF c1 = c2 THEN Gen_PairAction(card1_value, dealer_value)
                    ELSE NoReturn
        IN  IF pair # NoReturn THEN pair
            ELSE IF c1 = "A" THEN Gen_SoftAction(card2_value, dealer_value)
            ELSE Gen_HardAction(card1_value, card2_value, dealer_value)

Gen_basic_strategy_action(c1, c2, d) ==
    IF c2 = "A" THEN Gen_Dispatch(c2, c1, d) ELSE Gen_Dispatch(c1, c2, d)

soft_total(c1, c2) ==
    IF c1 = "A" /\ c2 = "A" THEN 12
    ELSE Gen_RANK_VALUE[c1] + Gen_RANK_VALUE[c2]

\* one element of the generator expression of generate_basic_strategy_data
Gen_record(c1, c2, d) ==
    LET action == Gen_basic_strategy_action(c1, c2, d) IN
    IF ~({c1, c2} \subseteq DOMAIN Gen_RANK_VALUE) THEN Raise("KeyError")
    ELSE IF action.status = "raise" THEN action
    ELSE Return([card1    |-> c1,
                 card2    |-> c2,
                 total    |-> soft_total(c1, c2),
                 hardness |-> IF c1 = "A" \/ c2 = "A" THEN "Soft" ELSE "Hard",
                 dealer   |-> d,
                 action   |-> IF action.status = "none" THEN None
                              ELSE action.value])

(* ---------------- calls of the decision function ---------------- *)

InitFn ==
    /\ card1 \in RankSet
    /\ card2 \in RankSet
    /\ dealer \in RankSet
    /\ ret = Pending
    /\ ret_gen = Pending
    /\ prog = "none"
    /\ it = <<1, 1, 1>>
    /\ pc = "idle"
    /\ out = <<>>

\* blackjack.py: basic_strategy_action(card1, card2, dealer) is called
CallAction ==
    /\ ret = Pending
    /\ ret' = basic_strategy_action(card1, card2, dealer)
    /\ UNCHANGED <<card1, card2, dealer, ret_gen, prog, it, pc, out>>

\* generate_basic_strategy_data.py: the same call
Gen_CallAction ==
    /\ ret_gen = Pending
    /\ ret_gen' = Gen_basic_strategy_action(card1, card2, dealer)
    /\ UNCHANGED <<card1, card2, dealer, ret, prog, it, pc, out>>

NextFn == CallAction \/ Gen_CallAction

SpecFn == InitFn /\ [][NextFn]_vars

(* ---------------- the generators ---------------- *)

\* the three nested "for ... in RANKS" loops, dealer innermost; it holds the
\* 1-based positions of card1, card2 and dealer in the list
Advance_ShortDealer(pos, ranks) ==
    IF pos[3] < Len(ranks) - 1 THEN <<pos[1], pos[2], pos[3] + 1>>
    ELSE IF pos[2] < Len(ranks) THEN <<pos[1], pos[2] + 1, 1>>
    ELSE <<pos[1] + 1, 1, 1>>

Advance(pos, ranks) ==
    IF pos[3] < Len(ranks) THEN <<pos[1], pos[2], pos[3] + 1>>
    ELSE IF pos[2] < Len(ranks) THEN <<pos[1], pos[2] + 1, 1>>
    ELSE <<pos[1] + 1, 1, 1>>

InitGen ==
    /\ prog \in {"blackjack", "generate"}
    /\ it = <<1, 1, 1>>
    /\ pc = "iterating"
    /\ out = <<>>
    /\ card1 = RANKS[1]
    /\ card2 = RANKS[1]
    /\ dealer = RANKS[1]
    /\ ret = Pending
    /\ ret_gen = Pending

\* shared shape of one step of either generator: yield rec or propagate
Yield(rec, ranks) ==
    /\ IF rec.status = "return"
       THEN /\ out' = Append(out, rec.value)
            /\ it' = Advance(it, ranks)
            /\ pc' = pc
       ELSE /\ pc' = "raised"
            /\ UNCHANGED <<out, it>>
    /\ UNCHANGED <<card1, card2, dealer, ret, ret_gen, prog>>

\* blackjack.py: the generator yields its next record
NextRecord ==
    /\ prog = "blackjack"
    /\ pc = "iterating"
    /\ it[1] <= Len(RANKS)
    /\ Yield(basic_strategy_data_record(RANKS[it[1]], RANKS[it[2]], RANKS[it[3]]),
             RANKS)

\* generate_basic_strategy_data.py: the generator yields its next record
Gen_NextRecord ==
    /\ prog = "generate"
    /\ pc = "iterating"
    /\ it[1] <= Len(Gen_RANKS)
    /\ Yield(Gen_record(Gen_RANKS[it[1]], Gen_RANKS[it[2]], Gen_RANKS[it[3]]),
             Gen_RANKS)

\* the outer loop is over: the generator is exhausted
StopIteration ==
    /\ pc = "iterating"
    /\ it[1] > Len(IF prog = "blackjack" THEN RANKS ELSE Gen_RANKS)
    /\ pc' = "exhausted"
    /\ UNCHANGED <<card1, card2, dealer, ret, ret_gen, prog, it, out>>

NextGen == NextRecord \/ Gen_NextRecord \/ StopIteration

SpecGen == InitGen /\ [][NextGen]_vars

\* the "for deal in generate_basic_strategy_data()" loop of __main__ keeps
\* pulling records until the generator is exhausted
FairSpecGen == SpecGen /\ WF_vars(NextGen)

(* ---------------- properties ---------------- *)

\* the numeric value of a rank as the strategy tables state it:
\* 2-9 face value, T/J/Q/K = 10, A = 11
V(r) ==
    CASE r = "2" -> 2 [] r = "3" -> 3 [] r = "4" -> 4 [] r = "5" -> 5
      [] r = "6" -> 6 [] r = "7" -> 7 [] r = "8" -> 8 [] r = "9" -> 9
      [] r \in {"T", "J", "Q", "K"} -> 10
      [] r = "A" -> 11

SixCodes == {HIT, STAND, SPLIT, DOUBLE_OR_HIT, DOUBLE_OR_STAND, SURRENDER_OR_HIT}

\* C1 (totality): every call of blackjack.py's basic_strategy_action over the
\* 13 ranks returns one of the six action codes; it neither raises nor runs
\* off the end of the function.
C1_Totality ==
    ret # Pending => ret.status = "return" /\ ret.value \in SixCodes

\* a hand that reaches the last line of the function (hard 5, dealer Ace)
C1_Witness ==
    card1 = "2" /\ card2 = "3" /\ dealer = "A" /\ ret = Return(HIT)

\* C2 (symmetry): swapping the two player cards never changes the outcome,
\* in either file.
C2_Symmetry ==
    /\ ret # Pending => ret = basic_strategy_action(card2, card1, dealer)
    /\ ret_gen # Pending => ret_gen = Gen_basic_strategy_action(card2, card1, dealer)

\* the Ace is dealt second and the swap promotes it: soft 16 against 5
C2_Witness ==
    /\ card1 = "5" /\ card2 = "A" /\ dealer = "5"
    /\ ret = Return(DOUBLE_OR_HIT) /\ ret_gen = Return(Gen_DOUBLE_OR_HIT)

C4_Complete ==
    /\ <>(pc = "exhausted")
    /\ [](pc = "exhausted" =>
            /\ Len(out) = 2197
            /\ \A a \in RankSet, b \in RankSet, c \in RankSet :
                 Cardinality({i \in 1..Len(out) :
                     out[i].card1 = a /\ out[i].card2 = b /\ out[i].dealer = c}) = 1)

\* the generator of blackjack.py ran to its end; its last record is A-A vs A
C4_Witness ==
    /\ pc = "exhausted" /\ prog = "blackjack" /\ Len(out) > 0
    /\ out[Len(out)].card1 = "A" /\ out[Len(out)].card2 = "A"
    /\ out[Len(out)].dealer = "A"

\* the pair table as C5 states it, for a pair of value v against dealer d
PairTable(r, d) ==
    IF r \in {"T", "J", "Q", "K"} THEN STAND
    ELSE IF r = "9" THEN (IF d \in {7, 10, 11} THEN STAND ELSE SPLIT)
    ELSE IF r \in {"8", "A"} THEN SPLIT
    ELSE IF r \in {"2", "3", "7"} THEN (IF d <= 7 THEN SPLIT ELSE HIT)
    ELSE IF r = "6" THEN (IF d <= 6 THEN SPLIT ELSE HIT)
    ELSE IF r = "4" THEN (IF d \in {5, 6} THEN SPLIT ELSE HIT)
    ELSE (IF d <= 9 THEN DOUBLE_OR_HIT ELSE HIT)

\* C5 (pair table): for two cards of the same rank symbol both files return
\* the action of the pair table.
C5_PairTable ==
    card1 = card2 =>
        /\ ret # Pending => ret = Return(PairTable(card1, V(dealer)))
        /\ ret_gen # Pending =>
               ret_gen = Return(ACTION_NAME[PairTable(card1, V(dealer))])

\* a pair of 9s against an Ace stands
C5_Witness ==
    /\ card1 = "9" /\ card2 = "9" /\ dealer = "A"
    /\ ret = Return(STAND) /\ ret_gen = Return(Gen_STAND)

\* the soft-total table as C6 states it: other card of value v, dealer d
SoftTable(v, d) ==
    IF v \in {9, 10} THEN STAND
    ELSE IF v = 8 THEN (IF d = 6 THEN DOUBLE_OR_STAND ELSE STAND)
    ELSE IF v = 7 THEN (IF d <= 6 THEN DOUBLE_OR_STAND
                        ELSE IF d \in {7, 8} THEN STAND ELSE HIT)
    ELSE IF v = 6 THEN (IF 3 <= d /\ d <= 6 THEN DOUBLE_OR_HIT ELSE HIT)
    ELSE IF v \in {4, 5} THEN (IF 4 <= d /\ d <= 6 THEN DOUBLE_OR_HIT ELSE HIT)
    ELSE (IF d \in {5, 6} THEN DOUBLE_OR_HIT ELSE HIT)

\* C6 (soft-total table): for a hand with exactly one Ace, in either
\* position, both files return the action of the soft-total table.
C6_SoftTable ==
    (card1 = "A") # (card2 = "A") =>
        LET v == IF card1 = "A" THEN V(card2) ELSE V(card1) IN
        /\ ret # Pending => ret = Return(SoftTable(v, V(dealer)))
        /\ ret_gen # Pending => ret_gen = Return(ACTION_NAME[SoftTable(v, V(dealer))])

\* soft 18 against 6, the Ace dealt second
C6_Witness ==
    /\ card1 = "7" /\ card2 = "A" /\ dealer = "6"
    /\ ret = Return(DOUBLE_OR_STAND) /\ ret_gen = Return(Gen_DOUBLE_OR_STAND)

\* the hard-total table as C7 states it: total t, dealer d
HardTable(t, d) ==
    IF t >= 17 THEN STAND
    ELSE IF t = 16 THEN (IF d <= 6 THEN STAND
                         ELSE IF d \in {7, 8} THEN HIT ELSE SURRENDER_OR_HIT)
    ELSE IF t = 15 THEN (IF d <= 6 THEN STAND
                         ELSE IF d = 10 THEN SURRENDER_OR_HIT ELSE HIT)
    ELSE IF t \in {13, 14} THEN (IF d <= 6 THEN STAND ELSE HIT)
    ELSE IF t = 12 THEN (IF 4 <= d /\ d <= 6 THEN STAND ELSE HIT)
    ELSE IF t = 11 THEN DOUBLE_OR_HIT
    ELSE IF t = 10 THEN (IF d <= 9 THEN DOUBLE_OR_HIT ELSE HIT)
    ELSE IF t = 9 THEN (IF 3 <= d /\ d <= 6 THEN DOUBLE_OR_HIT ELSE HIT)
    ELSE HIT

\* C7 (hard-total table): for two cards of different rank symbols, neither
\* an Ace, both files return the action of the hard-total table.
C7_HardTable ==
    (card1 # "A" /\ card2 # "A" /\ card1 # card2) =>
        LET t == V(card1) + V(card2) IN
        /\ ret # Pending => ret = Return(HardTable(t, V(dealer)))
        /\ ret_gen # Pending => ret_gen = Return(ACTION_NAME[HardTable(t, V(dealer))])

\* hard 15 against an Ace hits, it does not surrender
C7_Witness ==
    /\ card1 = "8" /\ card2 = "7" /\ dealer = "A"
    /\ ret = Return(HIT) /\ ret_gen = Return(Gen_HIT)

\* C8 (record total): the "total" of every yielded record is the sum of the
\* values of its two cards, except that two Aces total 12.
C8_RecordTotal ==
    \A i \in 1..Len(out) :
        out[i].total = IF out[i].card1 = "A" /\ out[i].card2 = "A" THEN 12
                       ELSE V(out[i].card1) + V(out[i].card2)

\* a record of two Aces with total 12 was yielded by blackjack.py
C8_Witness ==
    /\ prog = "blackjack" /\ Len(out) > 0
    /\ out[Len(out)].card1 = "A" /\ out[Len(out)].card2 = "A"
    /\ out[Len(out)].dealer = "2" /\ out[Len(out)].total = 12

\* C9 (the two files agree): the action name returned by
\* generate_basic_strategy_data.py is name_for_action of the code returned by
\* blackjack.py.
C9_FilesAgree ==
    (ret # Pending /\ ret_gen # Pending) =>
        /\ ret.status = "return"
        /\ ret_gen = name_for_action(ret.value)

\* a pair of 9s against 7, where the two files word the rule differently
C9_Witness ==
    /\ card1 = "9" /\ card2 = "9" /\ dealer = "7"
    /\ ret = Return(STAND) /\ ret_gen = Return(Gen_STAND)

\* C10 (Split only for pairs): whenever either file returns Split the two
\* player cards are the same rank symbol.
C10_SplitOnlyPairs ==
    /\ ret = Return(SPLIT) => card1 = card2
    /\ ret_gen = Return(Gen_SPLIT) => card1 = card2

\* a pair of 8s is split against a ten
C10_Witness ==
    /\ card1 = "8" /\ card2 = "8" /\ dealer = "T"
    /\ ret = Return(SPLIT) /\ ret_gen = Return(Gen_SPLIT)

====
